---- MODULE Spec2Model ----
(***************************************************************************)
(* A model of llm-sdk: the CreateImageRequest / CreateImageResponse data   *)
(* model of src/api/create_image.rs and the LLMSDK client of src/lib.rs.   *)
(*                                                                         *)
(* Strings that the program builds or converts (enum literals, the bearer  *)
(* header) are sequences of one-character strings, so that a conversion is *)
(* computed character by character.  Option<T> is a sequence of length at  *)
(* most one.  A JSON value is a record [t, v] whose t names its type.      *)
(***************************************************************************)
EXTENDS Integers, Sequences, FiniteSets, TLC

\* ------------------------------------------------------------------ bounds

\* Concurrent create_image invocations against the one client.
MaxCalls == 2
\* Largest value of the request's n drawn as an input.
MaxN == 1
\* Longest `data` array of a response body drawn as an input.
MaxData == 2

Calls == 1..MaxCalls

\* ------------------------------------------------------------------ Option

None == <<>>
Some(x) == <<x>>
IsNone(o) == Len(o) = 0
IsSome(o) == Len(o) = 1
Option(S) == {None} \cup {Some(x) : x \in S}

\* ------------------------------------------------------------------ JSON

JNull == [t |-> "null", v |-> <<>>]
JStr(s) == [t |-> "str", v |-> s]
JNum(n) == [t |-> "num", v |-> <<n>>]
JArr(xs) == [t |-> "arr", v |-> xs]
JObj(pairs) == [t |-> "obj", v |-> pairs]

\* The keys of a JSON object, in order, and the values stored under a key.
Keys(obj) == [i \in 1..Len(obj.v) |-> obj.v[i][1]]
ValuesOf(obj, k) == SelectSeq(obj.v, LAMBDA p : p[1] = k)
HasKey(obj, k) == \E i \in 1..Len(obj.v) : obj.v[i][1] = k
Range(s) == {s[i] : i \in 1..Len(s)}

\* ------------------------------------------------------------------ enums

\* A variant is its identifier, spelled out.
DallE3 == <<"D", "a", "l", "l", "E", "3">>
Standard == <<"S", "t", "a", "n", "d", "a", "r", "d">>
Hd == <<"H", "d">>
Url == <<"U", "r", "l">>
B64Json == <<"B", "6", "4", "J", "s", "o", "n">>
Large == <<"L", "a", "r", "g", "e">>
LargeWide == <<"L", "a", "r", "g", "e", "W", "i", "d", "e">>
LargeTall == <<"L", "a", "r", "g", "e", "T", "a", "l", "l">>
Vivid == <<"V", "i", "v", "i", "d">>
Natural == <<"N", "a", "t", "u", "r", "a", "l">>

ImageModel == {DallE3}
ImageQuality == {Standard, Hd}
ImageResponseFormat == {Url, B64Json}
ImageSize == {Large, LargeWide, LargeTall}
ImageStyle == {Vivid, Natural}

UpperChars == <<"A", "B", "C", "D", "E", "F", "G", "H", "I", "J", "K", "L", "M",
                "N", "O", "P", "Q", "R", "S", "T", "U", "V", "W", "X", "Y", "Z">>
LowerChars == <<"a", "b", "c", "d", "e", "f", "g", "h", "i", "j", "k", "l", "m",
                "n", "o", "p", "q", "r", "s", "t", "u", "v", "w", "x", "y", "z">>
IsUppercase(ch) == \E i \in 1..Len(UpperChars) : UpperChars[i] = ch
ToAsciiLowercase(ch) ==
    IF IsUppercase(ch)
    THEN LowerChars[CHOOSE i \in 1..Len(UpperChars) : UpperChars[i] = ch]
    ELSE ch

\* A mutant of SnakeCase: lowercases, and separates no words.
RECURSIVE LowerCaseFrom(_, _)
LowerCaseFrom(name, i) ==
    IF i > Len(name) THEN <<>>
    ELSE <<ToAsciiLowercase(name[i])>> \o LowerCaseFrom(name, i + 1)
LowerCase(name) == LowerCaseFrom(name, 1)

\* #[serde(rename_all = "snake_case")]: an underscore before every uppercase
\* character but the first, every character lowercased.
RECURSIVE SnakeCaseFrom(_, _)
SnakeCaseFrom(name, i) ==
    IF i > Len(name) THEN <<>>
    ELSE (IF i > 1 /\ IsUppercase(name[i]) THEN <<"_">> ELSE <<>>)
         \o <<ToAsciiLowercase(name[i])>>
         \o SnakeCaseFrom(name, i + 1)
SnakeCase(name) == SnakeCaseFrom(name, 1)

\* #[serde(rename = "dall-e-3")]
SerializeImageModel(m) ==
    CASE m = DallE3 -> <<"d", "a", "l", "l", "-", "e", "-", "3">>
SerializeImageQuality(q) == SnakeCase(q)
SerializeImageResponseFormat(f) == SnakeCase(f)
\* #[serde(rename = "1024x1024")] and the two others
SerializeImageSize(s) ==
    CASE s = Large -> <<"1", "0", "2", "4", "x", "1", "0", "2", "4">>
      [] s = LargeWide -> <<"1", "7", "9", "2", "x", "1", "0", "2", "4">>
      [] s = LargeTall -> <<"1", "0", "2", "4", "x", "1", "7", "9", "2">>
SerializeImageStyle(s) == SnakeCase(s)

\* ------------------------------------------------------------------ request

Prompts == {<<>>, <<"c", "a", "t">>}
Users == {<<"u", "1">>}

Requests ==
    [prompt : Prompts,
     model : ImageModel,
     n : Option(0..MaxN),
     quality : Option(ImageQuality),
     response_format : Option(ImageResponseFormat),
     size : Option(ImageSize),
     style : Option(ImageStyle),
     user : Option(Users)]

OptionalKeys == {"n", "quality", "response_format", "size", "style", "user"}

\* #[derive(Default)]: the empty prompt, the #[default] model, every Option None.
DefaultRequest ==
    [prompt |-> <<>>, model |-> DallE3, n |-> None, quality |-> None,
     response_format |-> None, size |-> None, style |-> None, user |-> None]

\* CreateImageRequest::new
New(prompt) == [DefaultRequest EXCEPT !.prompt = prompt]

\* A mutant of SkipSerializingIf: no field is ever skipped.
SkipNever(o) == FALSE

\* #[serde(skip_serializing_if = "Option::is_none")]
SkipSerializingIf(o) == IsNone(o)

\* Option<T>'s Serialize: None is null, Some(x) is x's own form j.
SerializeOption(o, j) == IF IsNone(o) THEN JNull ELSE j

\* The own form of the value a field holds, by the field's type.
SerializeUsize(o) == SerializeOption(o, JNum(o[1]))
SerializeString(o) == SerializeOption(o, JStr(o[1]))
SerializeQuality(o) == SerializeOption(o, JStr(SerializeImageQuality(o[1])))
SerializeResponseFormat(o) ==
    SerializeOption(o, JStr(SerializeImageResponseFormat(o[1])))
SerializeSize(o) == SerializeOption(o, JStr(SerializeImageSize(o[1])))
SerializeStyle(o) == SerializeOption(o, JStr(SerializeImageStyle(o[1])))

\* One optional field of the struct: skipped, or emitted under its key as j.
SerializeField(key, o, j) ==
    IF SkipSerializingIf(o) THEN <<>> ELSE << <<key, j>> >>

\* #[derive(Serialize)] for CreateImageRequest: the fields in declaration order.
SerializeRequest(r) ==
    JObj(<< <<"prompt", JStr(r.prompt)>>,
            <<"model", JStr(SerializeImageModel(r.model))>> >>
         \o SerializeField("n", r.n, SerializeUsize(r.n))
         \o SerializeField("quality", r.quality, SerializeQuality(r.quality))
         \o SerializeField("response_format", r.response_format,
                           SerializeResponseFormat(r.response_format))
         \o SerializeField("size", r.size, SerializeSize(r.size))
         \o SerializeField("style", r.style, SerializeStyle(r.style))
         \o SerializeField("user", r.user, SerializeString(r.user)))

\* ------------------------------------------------------------------ client

TIMEOUT == 30

Tokens == {<<>>, <<"k">>, <<"s", "k">>}

ContentType == <<"C", "o", "n", "t", "e", "n", "t", "-", "T", "y", "p", "e">>
ApplicationJson == <<"a", "p", "p", "l", "i", "c", "a", "t", "i", "o", "n", "/",
                     "j", "s", "o", "n">>
Authorization == <<"A", "u", "t", "h", "o", "r", "i", "z", "a", "t", "i", "o", "n">>
Bearer == <<"B", "e", "a", "r", "e", "r", " ">>

\* IntoRequest for CreateImageRequest: client.post(url).json(&self).
IntoRequest(r, client) ==
    [client |-> client,
     method |-> "POST",
     url |-> "https://api.openai.com/v1/images/generations",
     headers |-> << <<ContentType, ApplicationJson>> >>,
     body |-> SerializeRequest(r),
     timeout |-> None]

\* RequestBuilder::bearer_auth
BearerAuth(b, token) ==
    [b EXCEPT !.headers = @ \o << <<Authorization, Bearer \o token>> >>]

\* RequestBuilder::timeout
WithTimeout(b, secs) == [b EXCEPT !.timeout = Some(secs)]

\* A mutant of PrepareRequest: the bearer header is attached whatever the token.
PrepareRequestAlwaysAuth(s, r) ==
    WithTimeout(BearerAuth(IntoRequest(r, s.client), s.token), TIMEOUT)

\* A mutant of PrepareRequest: the timeout is attached only to authenticated calls.
PrepareRequestNoTimeout(s, r) ==
    IF s.token = <<>>
    THEN IntoRequest(r, s.client)
    ELSE WithTimeout(BearerAuth(IntoRequest(r, s.client), s.token), TIMEOUT)

\* LLMSDK::prepare_request
PrepareRequest(s, r) ==
    LET b0 == IntoRequest(r, s.client)
        b1 == IF s.token = <<>> THEN b0 ELSE BearerAuth(b0, s.token)
    IN  WithTimeout(b1, TIMEOUT)

\* ------------------------------------------------------------------ response

\* serde_json's u64: a non-negative integer.
DecodeU64(j) == IF j.t = "num" /\ j.v[1] >= 0 THEN Some(j.v[1]) ELSE None
\* String: a JSON string and nothing else.
DecodeString(j) == IF j.t = "str" THEN Some(j.v) ELSE None

\* A mutant of DecodeOptionString: the field is never populated.
DecodeOptionStringDropped(j) ==
    IF j.t \in {"null", "str"} THEN Some(None) ELSE None

\* Option<String>: null is None, a JSON string is Some, anything else fails.
DecodeOptionString(j) ==
    IF j.t = "null" THEN Some(None)
    ELSE IF j.t = "str" THEN Some(Some(j.v))
    ELSE None

\* A mutant of FinishImageObject: a missing revised_prompt defaults to "".
FinishImageObjectDefault(acc) ==
    Some([b64_json |-> IF IsNone(acc.b64_json) THEN None ELSE acc.b64_json[1],
          url |-> IF IsNone(acc.url) THEN None ELSE acc.url[1],
          revised_prompt |-> IF IsNone(acc.revised_prompt) THEN <<>>
                             ELSE acc.revised_prompt[1]])

\* The end of the derived visit_map of ImageObject: a missing Option field is
\* None, a missing revised_prompt is an error.
FinishImageObject(acc) ==
    IF IsNone(acc.revised_prompt) THEN None
    ELSE Some([b64_json |-> IF IsNone(acc.b64_json) THEN None ELSE acc.b64_json[1],
               url |-> IF IsNone(acc.url) THEN None ELSE acc.url[1],
               revised_prompt |-> acc.revised_prompt[1]])

\* #[derive(Deserialize)] for ImageObject, from a JSON object: each known key
\* once, in any order; an unknown key is ignored; a repeated key is an error.
RECURSIVE VisitImageObjectMap(_, _, _)
VisitImageObjectMap(pairs, i, acc) ==
    IF i > Len(pairs) THEN FinishImageObject(acc)
    ELSE LET k == pairs[i][1]
             j == pairs[i][2]
         IN  CASE k = "b64_json" ->
                    LET d == DecodeOptionString(j)
                    IN  IF IsSome(acc.b64_json) \/ IsNone(d) THEN None
                        ELSE VisitImageObjectMap(pairs, i + 1,
                                                 [acc EXCEPT !.b64_json = d])
               [] k = "url" ->
                    LET d == DecodeOptionString(j)
                    IN  IF IsSome(acc.url) \/ IsNone(d) THEN None
                        ELSE VisitImageObjectMap(pairs, i + 1, [acc EXCEPT !.url = d])
               [] k = "revised_prompt" ->
                    LET d == DecodeString(j)
                    IN  IF IsSome(acc.revised_prompt) \/ IsNone(d) THEN None
                        ELSE VisitImageObjectMap(pairs, i + 1,
                                                 [acc EXCEPT !.revised_prompt = d])
               [] OTHER -> VisitImageObjectMap(pairs, i + 1, acc)

\* The same from a JSON array: the fields by position, exactly as many.
VisitImageObjectSeq(xs) ==
    IF Len(xs) # 3 THEN None
    ELSE LET b == DecodeOptionString(xs[1])
             u == DecodeOptionString(xs[2])
             p == DecodeString(xs[3])
         IN  IF IsNone(b) \/ IsNone(u) \/ IsNone(p) THEN None
             ELSE Some([b64_json |-> b[1], url |-> u[1], revised_prompt |-> p[1]])

DecodeImageObject(j) ==
    CASE j.t = "obj" ->
           VisitImageObjectMap(j.v, 1, [b64_json |-> None, url |-> None,
                                        revised_prompt |-> None])
      [] j.t = "arr" -> VisitImageObjectSeq(j.v)
      [] OTHER -> None

\* A mutant of DecodeImageObjects: the results come out in reverse order.
RECURSIVE DecodeImageObjectsReversed(_, _)
DecodeImageObjectsReversed(xs, i) ==
    IF i > Len(xs) THEN Some(<<>>)
    ELSE LET h == DecodeImageObject(xs[i])
             rest == DecodeImageObjectsReversed(xs, i + 1)
         IN  IF IsNone(h) \/ IsNone(rest) THEN None
             ELSE Some(rest[1] \o <<h[1]>>)

\* Vec<ImageObject>: the elements in order, the first failure failing the whole.
RECURSIVE DecodeImageObjects(_, _)
DecodeImageObjects(xs, i) ==
    IF i > Len(xs) THEN Some(<<>>)
    ELSE LET h == DecodeImageObject(xs[i])
             rest == DecodeImageObjects(xs, i + 1)
         IN  IF IsNone(h) \/ IsNone(rest) THEN None
             ELSE Some(<<h[1]>> \o rest[1])

DecodeData(j) == IF j.t = "arr" THEN DecodeImageObjects(j.v, 1) ELSE None

\* The end of the derived visit_map of CreateImageResponse: both fields required.
FinishResponse(acc) ==
    IF IsNone(acc.created) \/ IsNone(acc.data) THEN None
    ELSE Some([created |-> acc.created[1], data |-> acc.data[1]])

\* #[derive(Deserialize)] for CreateImageResponse, from a JSON object.
RECURSIVE VisitResponseMap(_, _, _)
VisitResponseMap(pairs, i, acc) ==
    IF i > Len(pairs) THEN FinishResponse(acc)
    ELSE LET k == pairs[i][1]
             j == pairs[i][2]
         IN  CASE k = "created" ->
                    LET d == DecodeU64(j)
                    IN  IF IsSome(acc.created) \/ IsNone(d) THEN None
                        ELSE VisitResponseMap(pairs, i + 1, [acc EXCEPT !.created = d])
               [] k = "data" ->
                    LET d == DecodeData(j)
                    IN  IF IsSome(acc.data) \/ IsNone(d) THEN None
                        ELSE VisitResponseMap(pairs, i + 1, [acc EXCEPT !.data = d])
               [] OTHER -> VisitResponseMap(pairs, i + 1, acc)

\* The same from a JSON array: created, then data, and nothing more.
VisitResponseSeq(xs) ==
    IF Len(xs) # 2 THEN None
    ELSE LET c == DecodeU64(xs[1])
             d == DecodeData(xs[2])
         IN  IF IsNone(c) \/ IsNone(d) THEN None
             ELSE Some([created |-> c[1], data |-> d[1]])

\* Response::json::<CreateImageResponse> on a body that was read: None is the
\* decode error.  A body of type "invalid" is text that is not JSON.
DecodeResponse(body) ==
    CASE body.t = "obj" -> VisitResponseMap(body.v, 1, [created |-> None, data |-> None])
      [] body.t = "arr" -> VisitResponseSeq(body.v)
      [] OTHER -> None

\* ------------------------------------------------------------------ inputs

\* Response bodies.  An element of `data`: each field absent or present.
ElemObj(b, u, p) ==
    JObj((IF IsNone(b) THEN <<>> ELSE << <<"b64_json", b[1]>> >>)
         \o (IF IsNone(u) THEN <<>> ELSE << <<"url", u[1]>> >>)
         \o (IF IsNone(p) THEN <<>> ELSE << <<"revised_prompt", p[1]>> >>))

Elements ==
    {ElemObj(b, u, p) :
        b \in Option({JStr(<<"b">>)}),
        u \in Option({JNull, JStr(<<"u">>)}),
        p \in Option({JStr(<<"p">>), JNum(7)})}
    \cup {JNull}

SeqsUpTo(S, n) == UNION {[1..k -> S] : k \in 0..n}

BodyObj(c, d) ==
    JObj((IF IsNone(c) THEN <<>> ELSE << <<"created", c[1]>> >>)
         \o (IF IsNone(d) THEN <<>> ELSE << <<"data", d[1]>> >>))

InvalidJson == [t |-> "invalid", v |-> <<>>]
\* The remote's error payload: {"error": {"message": ...}}.
ErrorPayload == JObj(<< <<"error", JObj(<< <<"message", JStr(<<"e">>)>> >>)>> >>)

UrlElem == ElemObj(None, Some(JStr(<<"u">>)), Some(JStr(<<"p">>)))
B64Elem == ElemObj(Some(JStr(<<"b">>)), None, Some(JStr(<<"p">>)))
BothElem == ElemObj(Some(JStr(<<"b">>)), Some(JStr(<<"u">>)), Some(JStr(<<"p">>)))
NeitherElem == ElemObj(None, None, Some(JStr(<<"p">>)))
GoodBody(elems) == BodyObj(Some(JNum(1700000000)), Some(JArr(elems)))

SpecialBodies ==
    {InvalidJson, ErrorPayload, JNull, JStr(<<"o", "k">>),
     \* an unknown key beside the known ones
     JObj(<< <<"created", JNum(5)>>, <<"id", JStr(<<"x">>)>>,
             <<"data", JArr(<<UrlElem>>)>> >>),
     \* data before created
     JObj(<< <<"data", JArr(<<B64Elem>>)>>, <<"created", JNum(5)>> >>),
     \* created twice
     JObj(<< <<"created", JNum(5)>>, <<"created", JNum(5)>>,
             <<"data", JArr(<<UrlElem>>)>> >>),
     \* the struct as an array of its fields
     JArr(<<JNum(5), JArr(<<UrlElem>>)>>),
     JArr(<<JNum(5)>>)}

Bodies ==
    {BodyObj(c, d) :
        c \in Option({JNum(0), JNum(1700000000), JNum(-1), JStr(<<"1">>)}),
        d \in Option({JNull} \cup {JArr(xs) : xs \in SeqsUpTo(Elements, MaxData)})}
    \cup SpecialBodies

FewBodies ==
    {GoodBody(<<UrlElem>>), GoodBody(<<B64Elem>>), GoodBody(<<BothElem>>),
     GoodBody(<<NeitherElem>>), GoodBody(<<>>), ErrorPayload, InvalidJson}

Statuses == {200, 400, 500}

\* What the network does with one call: a reply whose headers arrive after rtt
\* seconds, a connection error after rtt seconds, headers after rtt seconds and
\* then a body that fails or never ends, or no answer at all.
RoundTrips == {1, TIMEOUT, TIMEOUT + 1}
Fates ==
    [kind : {"reply", "connect_error", "body_error", "body_stall"}, rtt : RoundTrips]
    \cup {[kind |-> "stall", rtt |-> 0]}

\* ------------------------------------------------------------------ transport

\* The request's timeout has elapsed before the network answered.
Expired(b, f) == IsSome(b.timeout) /\ (f.kind = "stall" \/ f.rtt > b.timeout[1])
\* send().await resolves: an answer, an error, or the timeout.
SendResolves(b, f) == f.kind # "stall" \/ IsSome(b.timeout)
SendOutcome(b, f) ==
    IF Expired(b, f) THEN "timeout"
    ELSE IF f.kind = "connect_error" THEN "transport"
    ELSE "ok"
\* Reading the body resolves likewise.
BodyResolves(b, f) == f.kind # "body_stall" \/ IsSome(b.timeout)
BodyOutcome(b, f) ==
    CASE f.kind = "body_stall" -> "timeout"
      [] f.kind = "body_error" -> "transport"
      [] OTHER -> "ok"

\* ------------------------------------------------------------------ state

VARIABLES
    sdk,        \* the LLMSDK: [token, client]
    pc,         \* each invocation's position in create_image
    req,        \* the request each invocation was given
    builder,    \* the RequestBuilder prepare_request returned
    net,        \* what the network does with the invocation's call
    res,        \* the Response send() returned
    ret,        \* what create_image returned
    sent,       \* outbound network calls each invocation has made
    decoded     \* decodes each invocation has attempted

vars == <<sdk, pc, req, builder, net, res, ret, sent, decoded>>

NoBuilder == [client |-> "none", method |-> "none", url |-> "none",
              headers |-> <<>>, body |-> JNull, timeout |-> None]
NoFate == [kind |-> "none", rtt |-> 0]
NoResponse == [status |-> 0, body |-> JNull]
Pending == [ok |-> FALSE, err |-> "pending", val |-> None]
Ok(m) == [ok |-> TRUE, err |-> "none", val |-> Some(m)]
Err(e) == [ok |-> FALSE, err |-> e, val |-> None]

\* LLMSDK::new(token), and no invocation begun.
Init ==
    /\ sdk \in [token : Tokens, client : {"client"}]
    /\ pc = [c \in Calls |-> "idle"]
    /\ req = [c \in Calls |-> DefaultRequest]
    /\ builder = [c \in Calls |-> NoBuilder]
    /\ net = [c \in Calls |-> NoFate]
    /\ res = [c \in Calls |-> NoResponse]
    /\ ret = [c \in Calls |-> Pending]
    /\ sent = [c \in Calls |-> 0]
    /\ decoded = [c \in Calls |-> 0]

\* create_image is entered with request r: let req = self.prepare_request(req).
Call(c, r) ==
    /\ pc[c] = "idle"
    /\ pc' = [pc EXCEPT ![c] = "send"]
    /\ req' = [req EXCEPT ![c] = r]
    /\ builder' = [builder EXCEPT ![c] = PrepareRequest(sdk, r)]
    /\ UNCHANGED <<sdk, net, res, ret, sent, decoded>>

\* req.send(): the one network call goes out, and the invocation awaits it.
Send(c, f) ==
    /\ pc[c] = "send"
    /\ pc' = [pc EXCEPT ![c] = "await_send"]
    /\ net' = [net EXCEPT ![c] = f]
    /\ sent' = [sent EXCEPT ![c] = @ + 1]
    /\ UNCHANGED <<sdk, req, builder, res, ret, decoded>>

\* A mutant of Propagate: an error sends the invocation back to send again.
RetryOnError(c, e) ==
    /\ pc' = [pc EXCEPT ![c] = "send"]
    /\ UNCHANGED ret

\* The ? operator: the error is create_image's result.
Propagate(c, e) ==
    /\ pc' = [pc EXCEPT ![c] = "done"]
    /\ ret' = [ret EXCEPT ![c] = Err(e)]

\* send().await resolves: with one of the answers the remote may give, or
\* with an error.
SendDone(c, answers) ==
    /\ pc[c] = "await_send"
    /\ SendResolves(builder[c], net[c])
    /\ IF SendOutcome(builder[c], net[c]) = "ok"
       THEN /\ pc' = [pc EXCEPT ![c] = "json"]
            /\ \E rs \in answers : res' = [res EXCEPT ![c] = rs]
            /\ UNCHANGED ret
       ELSE /\ Propagate(c, SendOutcome(builder[c], net[c]))
            /\ UNCHANGED res
    /\ UNCHANGED <<sdk, req, builder, net, sent, decoded>>

\* A mutant of Json: a non-success status is an error of its own, and the body
\* is not decoded.
JsonChecksStatus(c) ==
    /\ pc[c] = "json"
    /\ BodyResolves(builder[c], net[c])
    /\ IF BodyOutcome(builder[c], net[c]) # "ok"
       THEN Propagate(c, BodyOutcome(builder[c], net[c])) /\ UNCHANGED decoded
       ELSE IF res[c].status >= 400
       THEN Propagate(c, "status") /\ UNCHANGED decoded
       ELSE /\ decoded' = [decoded EXCEPT ![c] = @ + 1]
            /\ LET d == DecodeResponse(res[c].body)
               IN  IF IsNone(d) THEN Propagate(c, "decode")
                   ELSE /\ pc' = [pc EXCEPT ![c] = "done"]
                        /\ ret' = [ret EXCEPT ![c] = Ok(d[1])]
    /\ UNCHANGED <<sdk, req, builder, net, res, sent>>

\* A mutant of Json: the response is read from a slot all invocations share.
JsonSharedResponse(c) ==
    /\ pc[c] = "json"
    /\ BodyResolves(builder[c], net[c])
    /\ IF BodyOutcome(builder[c], net[c]) # "ok"
       THEN Propagate(c, BodyOutcome(builder[c], net[c])) /\ UNCHANGED decoded
       ELSE /\ decoded' = [decoded EXCEPT ![c] = @ + 1]
            /\ LET d == DecodeResponse(res[1].body)
               IN  IF IsNone(d) THEN Propagate(c, "decode")
                   ELSE /\ pc' = [pc EXCEPT ![c] = "done"]
                        /\ ret' = [ret EXCEPT ![c] = Ok(d[1])]
    /\ UNCHANGED <<sdk, req, builder, net, res, sent>>

\* Ok(res.json::<CreateImageResponse>().await?): the body is read, whatever the
\* status, and decoded.
Json(c) ==
    /\ pc[c] = "json"
    /\ BodyResolves(builder[c], net[c])
    /\ IF BodyOutcome(builder[c], net[c]) # "ok"
       THEN Propagate(c, BodyOutcome(builder[c], net[c])) /\ UNCHANGED decoded
       ELSE /\ decoded' = [decoded EXCEPT ![c] = @ + 1]
            /\ LET d == DecodeResponse(res[c].body)
               IN  IF IsNone(d) THEN Propagate(c, "decode")
                   ELSE /\ pc' = [pc EXCEPT ![c] = "done"]
                        /\ ret' = [ret EXCEPT ![c] = Ok(d[1])]
    /\ UNCHANGED <<sdk, req, builder, net, res, sent>>

\* ------------------------------------------------------------------ specifications

\* Concurrent invocations against one client, over a few inputs each.
FewRequests == {New(<<"c", "a", "t">>),
                [New(<<"c", "a", "t">>) EXCEPT !.response_format = Some(B64Json)]}
FewFates == {[kind |-> "reply", rtt |-> 1], [kind |-> "connect_error", rtt |-> 1],
             [kind |-> "stall", rtt |-> 0]}
FewResponses == {[status |-> 200, body |-> GoodBody(<<UrlElem>>)],
                 [status |-> 400, body |-> ErrorPayload]}

Next ==
    \E c \in Calls :
        \/ \E r \in FewRequests : Call(c, r)
        \/ \E f \in FewFates : Send(c, f)
        \/ SendDone(c, FewResponses)
        \/ Json(c)

Spec == Init /\ [][Next]_vars

\* prepare_request alone, over every request and token.
NextPrepare == \E r \in Requests : Call(1, r)

SpecPrepare == Init /\ [][NextPrepare]_vars

\* One invocation from call to return, over every fate of the network.
CallRequests ==
    {[New(<<"c", "a", "t">>) EXCEPT !.response_format = f] :
        f \in Option(ImageResponseFormat)}
CallResponses == [status : Statuses, body : FewBodies]

NextCall ==
    \/ \E r \in CallRequests : Call(1, r)
    \/ \E f \in Fates : Send(1, f)
    \/ SendDone(1, CallResponses)
    \/ Json(1)

SpecCall == Init /\ [][NextCall]_vars

\* The runtime resumes an awaiting invocation once its future is ready: the
\* timer and the transport are polled, so SendDone and Json are taken when
\* they stay enabled.
SpecCallFair == SpecCall /\ WF_vars(SendDone(1, CallResponses))
                         /\ WF_vars(Json(1))

\* The decoding of the response, over every body, of one request to a fast
\* network.
DecodeResponses == [status : {200}, body : Bodies]

NextDecode ==
    \/ Call(1, New(<<"c", "a", "t">>))
    \/ Send(1, [kind |-> "reply", rtt |-> 1])
    \/ SendDone(1, DecodeResponses)
    \/ Json(1)

\* LLMSDK::new with the one token: the decoding does not read it.
InitDecode == Init /\ sdk.token = <<"s", "k">>

SpecDecode == InitDecode /\ [][NextDecode]_vars

\* ------------------------------------------------------------------ claims

\* The one value stored under key k of a JSON object that holds k once.
Field(obj, k) == ValuesOf(obj, k)[1][2]
Started == {c \in Calls : pc[c] # "idle"}
Done == {c \in Calls : pc[c] = "done"}

\* C1: the serialized request holds "prompt" and "model" (= "dall-e-3") once
\* each, holds the key of an optional field exactly when that field is set (a
\* default variant included), holds no other key and no null; a request built
\* by new(prompt) serializes to exactly the keys prompt, model.
C1_SerializedKeys ==
    \A c \in Started :
        LET body == builder[c].body
            r == req[c]
        IN  /\ body.t = "obj"
            /\ Range(Keys(body)) \subseteq {"prompt", "model"} \cup OptionalKeys
            /\ Len(ValuesOf(body, "prompt")) = 1
            /\ Len(ValuesOf(body, "model")) = 1
            /\ Field(body, "prompt") = JStr(r.prompt)
            /\ Field(body, "model") = JStr(<<"d", "a", "l", "l", "-", "e", "-", "3">>)
            /\ \A k \in OptionalKeys :
                   Len(ValuesOf(body, k)) = (IF Len(r[k]) = 0 THEN 0 ELSE 1)
            /\ \A i \in 1..Len(body.v) : body.v[i][2].t # "null"
            /\ (r = New(r.prompt) => Keys(body) = <<"prompt", "model">>)

\* A request with quality set to its default variant and size unset: the
\* first is emitted, the second is not.
C1_Witness ==
    \E c \in Started :
        /\ req[c].quality = Some(Standard)
        /\ req[c].size = None
        /\ HasKey(builder[c].body, "quality")
        /\ ~HasKey(builder[c].body, "size")

\* The documented literal of each variant.
Literal(v) ==
    CASE v = DallE3 -> <<"d", "a", "l", "l", "-", "e", "-", "3">>
      [] v = Standard -> <<"s", "t", "a", "n", "d", "a", "r", "d">>
      [] v = Hd -> <<"h", "d">>
      [] v = Url -> <<"u", "r", "l">>
      [] v = B64Json -> <<"b", "6", "4", "_", "j", "s", "o", "n">>
      [] v = Large -> <<"1", "0", "2", "4", "x", "1", "0", "2", "4">>
      [] v = LargeWide -> <<"1", "7", "9", "2", "x", "1", "0", "2", "4">>
      [] v = LargeTall -> <<"1", "0", "2", "4", "x", "1", "7", "9", "2">>
      [] v = Vivid -> <<"v", "i", "v", "i", "d">>
      [] v = Natural -> <<"n", "a", "t", "u", "r", "a", "l">>

EnumKeys == {"quality", "response_format", "size", "style"}

\* C2: every enumeration field on the wire is the documented literal of its
\* variant, and two different variants of a field never share a literal.
C2_EnumLiterals ==
    \A c \in Started :
        LET body == builder[c].body
            r == req[c]
        IN  /\ Field(body, "model") = JStr(Literal(r.model))
            /\ \A k \in EnumKeys :
                   Len(r[k]) = 1 => Field(body, k) = JStr(Literal(r[k][1]))
            /\ \A a, b \in ImageQuality :
                   SerializeImageQuality(a) = SerializeImageQuality(b) => a = b
            /\ \A a, b \in ImageResponseFormat :
                   SerializeImageResponseFormat(a) = SerializeImageResponseFormat(b)
                   => a = b
            /\ \A a, b \in ImageSize :
                   SerializeImageSize(a) = SerializeImageSize(b) => a = b
            /\ \A a, b \in ImageStyle :
                   SerializeImageStyle(a) = SerializeImageStyle(b) => a = b

\* A request whose response_format is B64Json, on the wire as "b64_json".
C2_Witness ==
    \E c \in Started :
        /\ req[c].response_format = Some(B64Json)
        /\ req[c].size = Some(LargeTall)
        /\ Field(builder[c].body, "response_format")
               = JStr(<<"b", "6", "4", "_", "j", "s", "o", "n">>)

AuthHeaders(b) == SelectSeq(b.headers, LAMBDA h : h[1] = Authorization)

\* C3: a request that create_image has prepared or sent carries exactly one
\* Authorization header, "Bearer <token>", when the token is non-empty, and
\* none when it is empty.
C3_BearerIffToken ==
    \A c \in Started :
        LET auth == AuthHeaders(builder[c])
        IN  /\ (Len(sdk.token) = 0 => auth = <<>>)
            /\ (Len(sdk.token) > 0 =>
                    /\ Len(auth) = 1
                    /\ SubSeq(auth[1][2], 1, 7) = <<"B", "e", "a", "r", "e", "r", " ">>
                    /\ SubSeq(auth[1][2], 8, Len(auth[1][2])) = sdk.token)
            /\ (sdk.token = <<"s", "k">> =>
                    auth[1][2] = <<"B", "e", "a", "r", "e", "r", " ", "s", "k">>)

\* A call that a client with an empty token has sent, with no such header.
C3_Witness ==
    \E c \in Calls :
        /\ sent[c] = 1
        /\ sdk.token = <<>>
        /\ AuthHeaders(builder[c]) = <<>>

\* The network takes longer than the 30 seconds, or for ever.
TooSlow(f) == f.kind \in {"stall", "body_stall"} \/ f.rtt > 30

\* C4: every call, whatever the token, carries the 30-second timeout; a call
\* the network keeps longer than 30 seconds ends with the timeout error; and a
\* call that was sent always returns.
C4_TimeoutAlwaysReturns ==
    /\ [](\A c \in Started : builder[c].timeout = Some(30))
    /\ [](\A c \in Done : TooSlow(net[c]) => ret[c] = Err("timeout"))
    /\ \A c \in Calls : (pc[c] \in {"await_send", "json"}) ~> (pc[c] = "done")

\* A call of a client with no token that the network never answered has
\* returned the timeout error.
C4_Witness ==
    \E c \in Done :
        /\ sdk.token = <<>>
        /\ net[c].kind = "stall"
        /\ ret[c] = Err("timeout")

\* C5: an invocation makes one network call and no second one, whatever the
\* outcome; after a failed send nothing is decoded; the result is one error
\* with no response model, or the whole decoded response.
C5_OneCallNoRetry ==
    \A c \in Calls :
        /\ sent[c] = (IF pc[c] \in {"idle", "send"} THEN 0 ELSE 1)
        /\ decoded[c] <= 1
        /\ (pc[c] # "done" => ret[c] = Pending)
        /\ (pc[c] = "done" =>
                /\ ret[c].ok <=> Len(ret[c].val) = 1
                /\ ret[c].ok <=> ret[c].err = "none"
                /\ ret[c].err \in {"none", "timeout", "transport", "decode"}
                /\ (res[c] = NoResponse =>
                        decoded[c] = 0 /\ ret[c].err \in {"timeout", "transport"})
                /\ (ret[c].err \in {"timeout", "transport"} => decoded[c] = 0)
                /\ (ret[c].ok =>
                        Len(ret[c].val[1].data) = Len(Field(res[c].body, "data").v)))

\* An invocation whose send failed has returned the transport error after one
\* network call and no decode.
C5_Witness ==
    \E c \in Done :
        /\ net[c].kind = "connect_error"
        /\ ret[c] = Err("transport")
        /\ sent[c] = 1
        /\ decoded[c] = 0

\* A value of an element's optional field: a JSON string, or absent or null.
OptShape(e, k) ==
    /\ Len(ValuesOf(e, k)) <= 1
    /\ HasKey(e, k) => Field(e, k).t \in {"str", "null"}
HasRevisedPrompt(e) ==
    /\ e.t = "obj"
    /\ Len(ValuesOf(e, "revised_prompt")) = 1
    /\ Field(e, "revised_prompt").t = "str"
HasCreated(body) ==
    /\ Len(ValuesOf(body, "created")) = 1
    /\ Field(body, "created").t = "num"
    /\ Field(body, "created").v[1] >= 0
HasData(body) ==
    /\ Len(ValuesOf(body, "data")) = 1
    /\ Field(body, "data").t = "arr"
WellFormedElem(e) ==
    HasRevisedPrompt(e) /\ OptShape(e, "url") /\ OptShape(e, "b64_json")
WellFormed(body) ==
    /\ body.t = "obj"
    /\ HasCreated(body)
    /\ HasData(body)
    /\ \A i \in 1..Len(Field(body, "data").v) : WellFormedElem(Field(body, "data").v[i])
\* What the body says of an element's optional field.
Given(e, k) ==
    IF HasKey(e, k) /\ Field(e, k).t = "str" THEN Some(Field(e, k).v) ELSE None
\* The invocations that read a body and decoded it.
Read == {c \in Done : decoded[c] = 1}

\* C6: of a well-formed body with a non-empty data array, the decoded response
\* has the body's created, as many results in the same order, and each
\* result's url, b64_json and revised_prompt as the body gives them.
C6_DecodePreserves ==
    \A c \in Read :
        LET body == res[c].body
        IN  (WellFormed(body) /\ Len(Field(body, "data").v) >= 1) =>
                LET m == ret[c].val[1]
                    xs == Field(body, "data").v
                IN  /\ ret[c].ok
                    /\ m.created = Field(body, "created").v[1]
                    /\ Len(m.data) = Len(xs)
                    /\ \A i \in 1..Len(xs) :
                           /\ m.data[i].url = Given(xs[i], "url")
                           /\ m.data[i].b64_json = Given(xs[i], "b64_json")
                           /\ m.data[i].revised_prompt = Field(xs[i], "revised_prompt").v

\* A body of two different results, decoded.
C6_Witness ==
    \E c \in Read :
        /\ res[c].body = GoodBody(<<UrlElem, B64Elem>>)
        /\ ret[c].ok
        /\ Len(ret[c].val[1].data) = 2

\* The body is not JSON, or is an object or a scalar without created, data or
\* some element's revised_prompt in the required shape.
Malformed(body) ==
    \/ body.t \in {"invalid", "null", "str", "num"}
    \/ /\ body.t = "obj"
       /\ \/ ~HasCreated(body)
          \/ ~HasData(body)
          \/ \E i \in 1..Len(Field(body, "data").v) :
                 ~HasRevisedPrompt(Field(body, "data").v[i])

C8_Independent ==
    /\ [][sdk' = sdk]_vars
    /\ [][\A c \in Calls :
              pc'[c] # pc[c] =>
                  \A d \in Calls \ {c} :
                      /\ pc'[d] = pc[d]
                      /\ req'[d] = req[d]
                      /\ builder'[d] = builder[d]
                      /\ net'[d] = net[d]
                      /\ res'[d] = res[d]
                      /\ ret'[d] = ret[d]
                      /\ sent'[d] = sent[d]
                      /\ decoded'[d] = decoded[d]]_vars
    /\ [](\A c \in Done :
              \A d \in Done :
                  (req[c] = req[d] /\ net[c] = net[d] /\ res[c] = res[d])
                  => ret[c] = ret[d])

\* One invocation has returned a response while another, begun on the same
\* client, still awaits its own.
C8_Witness ==
    \E c \in Done :
        \E d \in Calls :
            /\ ret[c].ok
            /\ pc[d] = "await_send"
            /\ sent[d] = 1

\* C9: the status plays no part: a body is decoded exactly when the transport
\* delivered it, a non-success status with the remote's error payload ends as
\* the decode error, a non-success status with a decodable body ends as a
\* response, and no result is an error of the remote API as such.
C9_StatusNotInspected ==
    \A c \in Done :
        /\ ret[c].err \in {"none", "timeout", "transport", "decode"}
        /\ decoded[c] = 1 <=> (res[c] # NoResponse /\ net[c].kind = "reply")
        /\ (/\ res[c].status >= 400
            /\ res[c].body = ErrorPayload
            /\ net[c].kind = "reply")
           => (decoded[c] = 1 /\ ret[c] = Err("decode"))
        /\ (/\ res[c].status >= 400
            /\ res[c].body = GoodBody(<<UrlElem>>)
            /\ net[c].kind = "reply")
           => ret[c].ok

\* A reply of status 400 with the error payload has ended as the decode error.
C9_Witness ==
    \E c \in Done :
        /\ res[c].status = 400
        /\ res[c].body = ErrorPayload
        /\ ret[c] = Err("decode")

\* The request asks for urls: response_format unset or Url.
WantsUrl(r) == r.response_format \in {None, Some(Url)}
\* A decoded result has exactly the one field the request asked for.
ResultHonours(r, img) ==
    IF WantsUrl(r) THEN Len(img.url) = 1 /\ Len(img.b64_json) = 0
    ELSE Len(img.b64_json) = 1 /\ Len(img.url) = 0
\* An element of the body has exactly the one field the request asked for.
ElemHonours(r, e) ==
    IF WantsUrl(r) THEN Len(Given(e, "url")) = 1 /\ Len(Given(e, "b64_json")) = 0
    ELSE Len(Given(e, "b64_json")) = 1 /\ Len(Given(e, "url")) = 0

\* C10 as claimed: every result of every returned response has exactly one of
\* b64_json / url, the one the request's response_format names.
C10_ExactlyOne ==
    \A c \in Done :
        ret[c].ok =>
            \A i \in 1..Len(ret[c].val[1].data) :
                ResultHonours(req[c], ret[c].val[1].data[i])

\* C10, amended: a result of a returned response has exactly the one of
\* b64_json / url that the request's response_format names exactly when the
\* element of the body it was decoded from has.
C10_ExactlyOneAsReplied ==
    \A c \in Done :
        ret[c].ok =>
            \A i \in 1..Len(ret[c].val[1].data) :
                ResultHonours(req[c], ret[c].val[1].data[i])
                <=> ElemHonours(req[c], Field(res[c].body, "data").v[i])

\* A request for b64_json answered with a b64_json result.
C10_Witness ==
    \E c \in Done :
        /\ req[c].response_format = Some(B64Json)
        /\ ret[c].ok
        /\ Len(ret[c].val[1].data) = 1
        /\ ResultHonours(req[c], ret[c].val[1].data[1])

====
